---- MODULE Spec2Model ----
(***************************************************************************)
(* StarTrader server: the backtest route (POST /api/backtests/run), the    *)
(* bar synthesizer generateSimulatedBars, and the in-memory store          *)
(* (MemStorage) they use.                                                  *)
(*                                                                         *)
(* Numbers.  JavaScript numbers are modelled as exact fixed-point values:  *)
(* a draw of Math.random() is k / RndDen for k in 0..RndDen-1, and every   *)
(* quantity derived from a draw is held as an integer numerator over the   *)
(* denominator named at its definition.  IEEE rounding of + and * is not   *)
(* modelled; toFixed(5), Math.floor and the date conversions are.          *)
(***************************************************************************)
EXTENDS Integers, Sequences, FiniteSets, TLC

(***************************************************************************)
(* Bounds of the model                                                     *)
(***************************************************************************)
\* resolution of a draw of Math.random() taken from the tape: k / RndDen
RndDen == 3
\* the tape of draws repeats with this period
TapeLen == 2
\* resolution of the draw that decides totalTrades: k / HeadDen
HeadDen == 50
\* resolution of the draw that decides winRate: k / WinDen
WinDen == 4
\* request dates lie on a grid of GridMs milliseconds, 0..MaxDateSteps steps
GridMs == 150000
MaxDateSteps == 8
\* request slots of the server specification (requests in flight or answered)
MaxSlots == 2
\* live trades placed and journal entries written are capped at these counts
MaxLiveTrades == 1
MaxJournal == 3
\* resolution of the draws of the simulate-signal route: k / SigDen
SigDen == 5
\* strategies created by POST /api/strategies are capped at this count
MaxCreated == 2

(***************************************************************************)
(* Arithmetic helpers                                                      *)
(***************************************************************************)
Abs(x) == IF x < 0 THEN -x ELSE x

Max(a, b) == IF a >= b THEN a ELSE b

Min(a, b) == IF a <= b THEN a ELSE b

\* Math.floor(num / den) for den > 0
Floor(num, den) == num \div den

\* the sum of s[lo .. hi], by halves so that the evaluation stays shallow
RECURSIVE SumRange(_, _, _)
SumRange(s, lo, hi) ==
    IF lo > hi THEN 0
    ELSE IF lo = hi THEN s[lo]
    ELSE LET mid == (lo + hi) \div 2
         IN  SumRange(s, lo, mid) + SumRange(s, mid + 1, hi)

\* Array.prototype.reduce((sum, x) => sum + x, 0)
SumSeq(s) == SumRange(s, 1, Len(s))

(***************************************************************************)
(* Entropy: Math.random()                                                  *)
(***************************************************************************)
Tapes == [0 .. TapeLen - 1 -> 0 .. RndDen - 1]

\* the n-th draw of a run (n = 0, 1, ...), as a numerator over RndDen
Random(tape, n) == tape[n % TapeLen]

(***************************************************************************)
(* Dates: a date string is [kind, ms]; kind "iso" is the format            *)
(* toISOString produces, "plain" any other parseable form, "invalid" a     *)
(* non-empty string Date cannot parse, "empty" the empty string.           *)
(***************************************************************************)
\* the NaN of new Date(unparseable).getTime(); every valid time is >= 0
NaN == -1

DateString(kind, ms) == [kind |-> kind, ms |-> ms]

InvalidDate == DateString("invalid", 0)

EmptyDate == DateString("empty", 0)

\* new Date(s).getTime()
DateGetTime(s) == IF s.kind \in {"iso", "plain"} THEN s.ms ELSE NaN

\* new Date(t).toISOString() for a valid time t (it throws on NaN)
ToISOString(t) == DateString("iso", t)

\* a + b on numbers that may be NaN
NumAdd(a, b) == IF a = NaN \/ b = NaN THEN NaN ELSE a + b

\* (mutant) <= in the place of <
NumLessOrEqual(a, b) == a # NaN /\ b # NaN /\ a <= b

\* a < b on numbers that may be NaN: false when either is NaN
NumLess(a, b) == a # NaN /\ b # NaN /\ a < b

(***************************************************************************)
(* generateSimulatedBars (routes.ts 237-268)                               *)
(* Prices before toFixed are numerators over 100000 * RndDen; the bar      *)
(* fields open/high/low/close are the toFixed(5) strings, held as the      *)
(* integer number of 0.00001 steps they spell.                             *)
(***************************************************************************)
interval == 5 * 60 * 1000

IncludesJPY(symbol) == symbol \in {"USDJPY", "EURJPY", "GBPJPY"}

\* 150.0 or 1.1000, over 100000 * RndDen
BasePrice(symbol) == IF IncludesJPY(symbol) THEN 15000000 * RndDen ELSE 110000 * RndDen

\* 0.5 or 0.0005, over 100000: r * volatility is Random * Volatility over 100000 * RndDen
Volatility(symbol) == IF IncludesJPY(symbol) THEN 50000 ELSE 50

\* Number.prototype.toFixed(5) of x / (100000 * RndDen): the nearest multiple of
\* 0.00001, the larger magnitude on a tie
ToFixed5(x) ==
    IF x >= 0 THEN (2 * x + RndDen) \div (2 * RndDen)
    ELSE -((2 * (-x) + RndDen) \div (2 * RndDen))

\* (mutant) the jitter added to the low instead of subtracted
BarLowAdds(open, close, jitter) == Min(open, close) + jitter

\* rawLow: Math.min(open, close) - Math.random() * volatility
BarLow(open, close, jitter) == Min(open, close) - jitter

\* (mutant) the bar stamped with the end of its interval
BarTimeAtClose(time) == ToISOString(time + 5 * 60 * 1000)

\* time: new Date(time).toISOString()
BarTime(time) == ToISOString(time)

\* (mutant) the loop runs only while a whole interval fits before end
LoopContinuesWholeBar(time, end) == time # NaN /\ end # NaN /\ time + 5 * 60 * 1000 <= end

\* the loop test, time < end
LoopContinues(time, end) == NumLess(time, end)

\* rawHigh: Math.max(open, close) + Math.random() * volatility
BarHigh(open, close, jitter) == Max(open, close) + jitter

\* one iteration of the loop body: the bar pushed for `time`, drawing from n on
MakeBar(time, price, vol, tape, n) ==
    LET change == (2 * Random(tape, n) - RndDen) * vol
        open == price
        close == price + change
        high == BarHigh(open, close, Random(tape, n + 1) * vol)
        low == BarLow(open, close, Random(tape, n + 2) * vol)
    IN  [time |-> BarTime(time),
         open |-> ToFixed5(open),
         high |-> ToFixed5(high),
         low |-> ToFixed5(low),
         close |-> ToFixed5(close),
         tick_volume |-> Floor(Random(tape, n + 3) * 1000, RndDen) + 100,
         spread |-> Floor(Random(tape, n + 4) * 20, RndDen) + 5,
         real_volume |-> 0,
         rawClose |-> close]

\* for (let time = start; time < end; time += interval): rawClose carries
\* `price = close` to the next iteration and is dropped from the bars returned
RECURSIVE BarsLoop(_, _, _, _, _, _)
BarsLoop(time, end, price, vol, tape, n) ==
    IF ~LoopContinues(time, end) THEN <<>>
    ELSE LET bar == MakeBar(time, price, vol, tape, n)
         IN  <<bar>> \o BarsLoop(NumAdd(time, interval), end, bar.rawClose, vol, tape, n + 5)

StripRaw(bar) ==
    [time |-> bar.time, open |-> bar.open, high |-> bar.high, low |-> bar.low,
     close |-> bar.close, tick_volume |-> bar.tick_volume, spread |-> bar.spread,
     real_volume |-> bar.real_volume]

\* (mutant) a reversed range is put in order before the loop
generateSimulatedBarsOrdered(startDate, endDate, symbol, tape, n) ==
    LET a == DateGetTime(startDate)
        b == DateGetTime(endDate)
        start == IF NumLess(b, a) THEN b ELSE a
        end == IF NumLess(b, a) THEN a ELSE b
        raw == BarsLoop(start, end, BasePrice(symbol), Volatility(symbol), tape, n)
    IN  [i \in 1 .. Len(raw) |-> StripRaw(raw[i])]

\* the bars returned; n is the index of the first draw it takes
generateSimulatedBars(startDate, endDate, symbol, tape, n) ==
    LET start == DateGetTime(startDate)
        end == DateGetTime(endDate)
        raw == BarsLoop(start, end, BasePrice(symbol), Volatility(symbol), tape, n)
    IN  [i \in 1 .. Len(raw) |-> StripRaw(raw[i])]

(***************************************************************************)
(* POST /api/backtests/run, the computation (routes.ts 157-229)            *)
(* Money (balances, profits) is a numerator over RndDen.                   *)
(***************************************************************************)
Money(x) == x * RndDen

\* Math.floor(Math.random() * 50) + 20, the draw being kt / HeadDen
TotalTradesOf(kt) == Floor(kt * 50, HeadDen) + 20

\* 45 + Math.random() * 25, the draw being kw / WinDen: a numerator over WinDen
WinRateOf(kw) == 45 * WinDen + kw * 25

\* (mutant) the percentage used as a fraction: Math.floor(winRate * totalTrades)
WinningTradesOfPercent(winRate, totalTrades) == Floor(winRate * totalTrades, WinDen)

\* Math.floor((winRate / 100) * totalTrades)
WinningTradesOf(winRate, totalTrades) == Floor(winRate * totalTrades, 100 * WinDen)

LosingTradesOf(totalTrades, winningTrades) == totalTrades - winningTrades

\* (mutant) the loss is not negated
TradeProfitLossPositive(isWin, r) == IF isWin THEN r * 200 + 50 * RndDen ELSE r * 150 + 30 * RndDen

\* isWin ? Math.random() * 200 + 50 : -(Math.random() * 150 + 30), over RndDen
TradeProfit(isWin, r) == IF isWin THEN r * 200 + 50 * RndDen ELSE -(r * 150 + 30 * RndDen)

\* (mutant) ids counted from 1
TradeIdFromOne(i) == <<"trade", i + 1>>

\* `trade-${i}`
TradeId(i) == <<"trade", i>>

\* new Date(new Date(startDate).getTime() + i * 3600000 * 4).toISOString()
TradeOpenTime(start, i) == ToISOString(start + i * 3600000 * 4)

\* (mutant) the trade closes one hour after it opens
TradeCloseTimeOneHour(start, i) == ToISOString(start + i * 3600000 * 4 + 3600000)

\* new Date(new Date(startDate).getTime() + (i + 1) * 3600000 * 4).toISOString()
TradeCloseTime(start, i) == ToISOString(start + (i + 1) * 3600000 * 4)

\* the object pushed for trade i; prices and volume are numerators over 10 * RndDen
MakeTrade(i, symbol, start, winningTrades, tape) ==
    LET n == 5 * i
    IN  [id |-> TradeId(i),
         symbol |-> symbol,
         type |-> IF 2 * Random(tape, n + 1) > RndDen THEN "BUY" ELSE "SELL",
         openPrice |-> 10 * RndDen + Random(tape, n + 2),
         closePrice |-> 10 * RndDen + Random(tape, n + 3),
         volume |-> RndDen + 4 * Random(tape, n + 4),
         profit |-> TradeProfit(i < winningTrades, Random(tape, n)),
         openTime |-> TradeOpenTime(start, i),
         closeTime |-> TradeCloseTime(start, i)]

\* (mutant) the samples are taken at i = 1, 4, 7, ...
PushEquityFromSecond(curve, i, equity) == IF i % 3 = 1 THEN Append(curve, equity) ELSE curve

\* (mutant) a sample after every trade
PushEquityEveryTrade(curve, i, equity) == Append(curve, equity)

\* if (i % 3 === 0) equityCurve.push(equity)
PushEquity(curve, i, equity) == IF i % 3 = 0 THEN Append(curve, equity) ELSE curve

\* (mutant) the curve starts empty: const equityCurve = []
LoopInitEmptyCurve(initialBalance) ==
    [trades |-> <<>>, equity |-> Money(initialBalance), equityCurve |-> <<>>]

\* let equity = initialBalance; const equityCurve = [equity]
LoopInit(initialBalance) ==
    [trades |-> <<>>, equity |-> Money(initialBalance),
     equityCurve |-> <<Money(initialBalance)>>]

\* the body of the loop for index i, on the state st of trades, equity, equityCurve
LoopStep(st, i, symbol, start, winningTrades, tape) ==
    LET trade == MakeTrade(i, symbol, start, winningTrades, tape)
        equity == st.equity + trade.profit
    IN  [trades |-> Append(st.trades, trade),
         equity |-> equity,
         equityCurve |-> PushEquity(st.equityCurve, i, equity)]

\* iterations lo .. hi-1 in order, from state st.  The range is split in halves
\* and the first half is evaluated (the test on half.equity) before the second
\* starts, so that the evaluation stays shallow.
RECURSIVE LoopRange(_, _, _, _, _, _, _)
LoopRange(st, lo, hi, symbol, start, winningTrades, tape) ==
    IF lo >= hi THEN st
    ELSE IF hi = lo + 1 THEN LoopStep(st, lo, symbol, start, winningTrades, tape)
    ELSE LET mid == (lo + hi) \div 2
             half == LoopRange(st, lo, mid, symbol, start, winningTrades, tape)
         IN  IF half.equity = half.equity
             THEN LoopRange(half, mid, hi, symbol, start, winningTrades, tape)
             ELSE half

\* for (let i = 0; i < totalTrades; i++): trades, equity and equityCurve after it
TradeLoop(totalTrades, initialBalance, symbol, start, winningTrades, tape) ==
    LoopRange(LoopInit(initialBalance), 0, totalTrades, symbol, start, winningTrades, tape)

Profits(trades) == [i \in 1 .. Len(trades) |-> trades[i].profit]

\* (mutant) only the winning trades are summed
TotalProfitOfWinsOnly(trades) == SumSeq(SelectSeq(Profits(trades), LAMBDA p : p > 0))

\* trades.reduce((sum, t) => sum + t.profit, 0)
TotalProfitOf(trades) == SumSeq(Profits(trades))

\* (mutant) the sum of the losses enters Math.max with its sign
ProfitFactorOfSignedLosses(trades) ==
    LET pos == SumSeq(SelectSeq(Profits(trades), LAMBDA p : p > 0))
        neg == SumSeq(SelectSeq(Profits(trades), LAMBDA p : p < 0))
    IN  [num |-> Abs(pos), den |-> Max(Money(1), neg)]

\* Math.abs(sum of profits > 0 / Math.max(1, Math.abs(sum of profits < 0))): the
\* quotient is kept as the pair num / den, both over RndDen
ProfitFactorOf(trades) ==
    LET pos == SumSeq(SelectSeq(Profits(trades), LAMBDA p : p > 0))
        neg == SumSeq(SelectSeq(Profits(trades), LAMBDA p : p < 0))
    IN  [num |-> Abs(pos), den |-> Max(Money(1), Abs(neg))]

\* new Date(NaN).toISOString() throws a RangeError: the loop throws on its first
\* iteration when startDate does not parse
LoopThrows(startDate, totalTrades) == totalTrades > 0 /\ DateGetTime(startDate) = NaN

\* the argument of storage.createBacktestResult and the bars written, for a parsed
\* request, the strategy found and the draws (kt, kw, tape) of this run
ComputeBacktest(req, strategy, kt, kw, tape) ==
    LET totalTrades == TotalTradesOf(kt)
        winRate == WinRateOf(kw)
        winningTrades == WinningTradesOf(winRate, totalTrades)
        losingTrades == LosingTradesOf(totalTrades, winningTrades)
        loop == TradeLoop(totalTrades, req.initialBalance, req.symbol,
                          DateGetTime(req.startDate), winningTrades, tape)
        \* draw 5 * totalTrades is maxDrawdown, the bars draw from the next one on
        barsData == generateSimulatedBars(req.startDate, req.endDate, req.symbol,
                                          tape, 5 * totalTrades + 1)
    IN  [barsData |-> barsData,
         result |->
            [strategyId |-> req.strategyId,
             strategyName |-> strategy.name,
             symbol |-> req.symbol,
             timeframe |-> req.timeframe,
             startDate |-> req.startDate,
             endDate |-> req.endDate,
             initialBalance |-> Money(req.initialBalance),
             finalBalance |-> loop.equity,
             totalTrades |-> totalTrades,
             winningTrades |-> winningTrades,
             losingTrades |-> losingTrades,
             winRate |-> winRate,
             totalProfit |-> TotalProfitOf(loop.trades),
             \* Math.random() * 15 + 5, over RndDen
             maxDrawdown |-> Random(tape, 5 * totalTrades) * 15 + 5 * RndDen,
             \* 0.5 + Math.random() * 1.5, over 2 * RndDen
             sharpeRatio |-> RndDen + 3 * Random(tape, 5 * totalTrades + 1 + 5 * Len(barsData)),
             profitFactor |-> ProfitFactorOf(loop.trades),
             equityCurve |-> loop.equityCurve,
             trades |-> loop.trades]]

(***************************************************************************)
(* The bars CSV, storage/backtests/latest_bars.csv: its content is a       *)
(* sequence of tokens, the header text, a line feed, or the text of one    *)
(* bar row.                                                                *)
(***************************************************************************)
HeaderTok == [tok |-> "header"]

NL == [tok |-> "nl"]

RowTok(bar) == [tok |-> "row", bar |-> bar]

\* rows.join("\n")
RECURSIVE JoinRows(_)
JoinRows(bars) ==
    IF bars = <<>> THEN <<>>
    ELSE IF Len(bars) = 1 THEN <<RowTok(bars[1])>>
    ELSE <<RowTok(bars[1]), NL>> \o JoinRows(Tail(bars))

csvHeader == <<HeaderTok, NL>>

\* csvHeader + csvRows
CsvContent(barsData) == csvHeader \o JoinRows(barsData)

NoFile == [exists |-> FALSE, content |-> <<>>]

\* fs.writeFileSync(csvPath, content)
WriteFile(content) == [exists |-> TRUE, content |-> content]

\* the positions of the line feeds of a text
LineFeeds(content) == {i \in 1 .. Len(content) : content[i] = NL}

\* content.split("\n"): the lines between the line feeds, one more than there are
\* line feeds, the last one empty when the text ends with a line feed
RECURSIVE SplitLines(_)
SplitLines(content) ==
    IF LineFeeds(content) = {} THEN <<content>>
    ELSE LET k == CHOOSE i \in LineFeeds(content) : \A j \in LineFeeds(content) : i <= j
         IN  <<SubSeq(content, 1, k - 1)>> \o SplitLines(SubSeq(content, k + 1, Len(content)))

\* content.trim(): the header and the rows hold no white space, so trim removes
\* the line feeds at both ends
RECURSIVE Trim(_)
Trim(content) ==
    IF content = <<>> THEN content
    ELSE IF content[1] = NL THEN Trim(Tail(content))
    ELSE IF content[Len(content)] = NL THEN Trim(SubSeq(content, 1, Len(content) - 1))
    ELSE content

\* GET /api/ml/status: barCount = content.split("\n").length - 1, 0 without a file
MlStatusBarCount(file) == IF file.exists THEN Len(SplitLines(file.content)) - 1 ELSE 0

(***************************************************************************)
(* MemStorage (storage.ts)                                                 *)
(***************************************************************************)
\* the ids of the two sample strategies of initializeSampleData
SampleStrategyIds == {"s1", "s2"}

\* the fields of the two sample strategies; createdAt and lastRun are milliseconds
\* relative to the construction of the store, winRate is over 10, totalProfit
\* over 100
SampleStrategies ==
    [id \in SampleStrategyIds |->
        IF id = "s1"
        THEN [id |-> id, name |-> "SMA Crossover", isActive |-> TRUE, createdAt |-> 0,
              lastRun |-> -3600000, totalTrades |-> 45, winRate |-> 625,
              totalProfit |-> 125050]
        ELSE [id |-> id, name |-> "RSI Reversal", isActive |-> FALSE,
              createdAt |-> -86400000, lastRun |-> -7200000, totalTrades |-> 28,
              winRate |-> 542, totalProfit |-> 45025]]

NotFound == [found |-> FALSE]

\* (mutant) a missing id still yields a value, so the handler's test never fires
getStrategyNeverMissing(strats, id) ==
    IF id \in DOMAIN strats THEN [found |-> TRUE, name |-> strats[id].name]
    ELSE [found |-> TRUE, name |-> "undefined"]

\* this.strategies.get(id)
getStrategy(strats, id) ==
    IF id \in DOMAIN strats THEN [found |-> TRUE, name |-> strats[id].name] ELSE NotFound

\* the ids randomUUID() gives to the strategies created, in order of creation
NewStrategyIds == <<"n1", "n2", "n3", "n4">>

\* lastRun: null, held as a value no lastRun time stamp of the model takes
NoLastRun == 0

\* createStrategy(strategy), the k-th creation: the map afterwards.  createdAt is
\* later than that of every strategy made before.
createStrategy(strats, body, k) ==
    LET id == NewStrategyIds[k]
        newStrategy == [id |-> id, name |-> body.name, isActive |-> FALSE,
                        createdAt |-> k, lastRun |-> NoLastRun, totalTrades |-> 0,
                        winRate |-> 0, totalProfit |-> 0]
    IN  [key \in (DOMAIN strats) \cup {id} |-> IF key = id THEN newStrategy ELSE strats[key]]

\* { ...strategy, ...updates }
Merge(strategy, updates) ==
    [f \in (DOMAIN strategy) \cup (DOMAIN updates) |->
        IF f \in DOMAIN updates THEN updates[f] ELSE strategy[f]]

\* updateStrategy(id, updates): the map afterwards; unchanged for an unknown id
updateStrategy(strats, id, updates) ==
    IF id \notin DOMAIN strats THEN strats
    ELSE [strats EXCEPT ![id] = Merge(strats[id], updates)]

\* this.strategies.delete(id): the map afterwards
deleteStrategy(strats, id) == [k \in (DOMAIN strats) \ {id} |-> strats[k]]

\* createBacktestResult: the stored record; randomUUID() is the next unused
\* number, createdAt the position in the order of creation
NewBacktestResult(results, result) ==
    [id |-> Len(results) + 1, createdAt |-> Len(results) + 1, data |-> result]

\* (mutant) the store keeps the latest result only
createBacktestResultKeepLatest(results, result) == <<NewBacktestResult(results, result)>>

\* this.backtestResults.set(id, newResult): a Map keeps insertion order
createBacktestResult(results, result) == Append(results, NewBacktestResult(results, result))

\* the mt5Config of initializeSampleData; balances are over RndDen
SampleMT5Config ==
    [login |-> "", password |-> "", server |-> "", connected |-> FALSE,
     accountBalance |-> Money(10000), accountEquity |-> Money(10000),
     accountProfit |-> 0, lastConnected |-> "null"]

\* updateMT5Config({...parsed.data, connected: true, ...}) of POST /api/mt5/connect,
\* with the three draws of Math.random()
ConnectedMT5Config(body, r1, r2, r3) ==
    [login |-> body.login, password |-> body.password, server |-> body.server,
     connected |-> TRUE,
     accountBalance |-> Money(10000) + r1 * 5000,
     accountEquity |-> Money(10000) + r2 * 5000,
     accountProfit |-> r3 * 500 - Money(250),
     lastConnected |-> "now"]

\* updateMT5Config({connected: false})
DisconnectedMT5Config(config) == [config EXCEPT !.connected = FALSE]

\* the tradingStatus of the constructor (lastUpdate, a time stamp, is left out)
InitialTradingStatus ==
    [isActive |-> FALSE, activeStrategies |-> <<>>, pendingOrders |-> 0,
     openPositions |-> 0]

\* updateTradingStatus(status): { ...this.tradingStatus, ...status }
updateTradingStatus(status, isActive, activeStrategies) ==
    [status EXCEPT !.isActive = isActive, !.activeStrategies = activeStrategies]

\* getOpenTrades().length
OpenPositions(stored) == Cardinality({i \in 1 .. Len(stored) : stored[i].status = "OPEN"})

\* getTradingStatus(): the stored status with openPositions counted from the trades
getTradingStatus(status, stored) == [status EXCEPT !.openPositions = OpenPositions(stored)]

\* the two journal entries of initializeSampleData
SampleJournalEntries ==
    <<[id |-> 1, tradeId |-> "null", type |-> "INSIGHT",
       title |-> "Market Analysis - Asian Session"],
      [id |-> 2, tradeId |-> "null", type |-> "TRADE", title |-> "GBPUSD Short Entry"]>>

\* createJournalEntry(entry): the entries afterwards, the new id being unused
createJournalEntry(entries, type, title) ==
    Append(entries, [id |-> Len(entries) + 1, tradeId |-> "null", type |-> type,
                     title |-> title])

\* strategies.find((s) => s.isActive) on getStrategies(), which sorts by
\* createdAt, latest first: the active strategy created last, if any
ActiveStrategy(strats) ==
    LET active == {id \in DOMAIN strats : strats[id].isActive}
    IN  IF active = {} THEN [found |-> FALSE]
        ELSE LET id == CHOOSE a \in active :
                            \A b \in active : strats[b].createdAt <= strats[a].createdAt
             IN  [found |-> TRUE, id |-> id, name |-> strats[id].name]

\* the trade POST /api/trades/place creates: prices are over 200 * RndDen, volume
\* over 100, profit over RndDen; r1 and r2 are the draws for openPrice and
\* currentPrice
PlacedTrade(stored, body, active, r1, r2) ==
    LET openPrice == 200 * RndDen + 20 * r1
        currentPrice == openPrice + (2 * r2 - RndDen)
        side == IF body.type = "BUY" THEN 1 ELSE -1
    IN  [id |-> Len(stored) + 1,
         symbol |-> body.symbol,
         type |-> body.type,
         volume |-> body.volume,
         openPrice |-> openPrice,
         currentPrice |-> currentPrice,
         profit |-> (currentPrice - openPrice) * body.volume * 5 * side,
         closeTime |-> "null",
         status |-> "OPEN",
         strategyId |-> IF active.found THEN active.id ELSE "",
         strategyName |-> IF active.found THEN active.name ELSE "Manual"]

\* this.trades.get(id) of closeTrade is defined
TradeKnown(stored, id) == \E i \in 1 .. Len(stored) : stored[i].id = id

\* the trade closeTrade(id) returns for a known id
ClosedTrade(stored, id) ==
    LET i == CHOOSE j \in 1 .. Len(stored) : stored[j].id = id
    IN  [stored[i] EXCEPT !.status = "CLOSED", !.closeTime = "now"]

\* closeTrade(id): the trades afterwards; nothing changes when the id is unknown
closeTrade(stored, id) ==
    [i \in 1 .. Len(stored) |->
        IF stored[i].id = id
        THEN [stored[i] EXCEPT !.status = "CLOSED", !.closeTime = "now"]
        ELSE stored[i]]

(***************************************************************************)
(* POST /api/trading/simulate-signal, the computation (routes.ts 570-663)  *)
(* Confidence is in hundredths.                                            *)
(***************************************************************************)
symbols == <<"EURUSD", "GBPUSD", "USDJPY", "AUDUSD", "USDCHF">>

\* symbols[Math.floor(Math.random() * symbols.length)], the draw being k / SigDen
SymbolOf(k) == symbols[Floor(k * Len(symbols), SigDen) + 1]

\* signalRaw > 0.6 ? "BUY" : signalRaw < 0.4 ? "SELL" : "HOLD"
SignalOf(k) ==
    IF 10 * k > 6 * SigDen THEN "BUY" ELSE IF 10 * k < 4 * SigDen THEN "SELL" ELSE "HOLD"

\* let confidence = 0.5
InitialConfidence == 50

CONF_THRESHOLD == 55

\* the number of lines lines.slice(-100) keeps
RecentLines == 100

\* the cells of a line, line.split(","): a cell is named by the line it is in and
\* its column, and a row's cell carries the bar of the row
ColumnCount == 8

LineCells(line) ==
    IF line = <<>> THEN <<<<"empty", 1>>>>
    ELSE IF line[1] = HeaderTok THEN [i \in 1 .. ColumnCount |-> <<"header", i>>]
    ELSE [i \in 1 .. ColumnCount |-> <<"row", i, line[1].bar>>]

\* lines.slice(-n)
SliceLast(lines, n) ==
    IF Len(lines) <= n THEN lines ELSE SubSeq(lines, Len(lines) - n + 1, Len(lines))

\* headers.forEach((h, i) => obj[h] = values[i])
RecordOf(headers, values) ==
    [h \in {headers[i] : i \in 1 .. Len(headers)} |->
        LET i == CHOOSE j \in 1 .. Len(headers) : headers[j] = h
        IN  IF i <= Len(values) THEN values[i] ELSE <<"undefined">>]

\* the records passed to predict_signal, from the text of the bars CSV
PredictorRecords(content) ==
    LET lines == SplitLines(Trim(content))
        headers == LineCells(lines[1])
        recentLines == SliceLast(lines, RecentLines)
    IN  [i \in 1 .. Len(recentLines) |-> RecordOf(headers, LineCells(recentLines[i]))]

\* the close listener of the predictor (routes.ts 610-621): the confidence and
\* mlUsed after stdout was parsed; out.parsed is whether JSON.parse succeeded
AfterPrediction(out) ==
    IF out.parsed /\ out.success
    THEN [confidence |-> out.confidence, mlUsed |-> TRUE]
    ELSE [confidence |-> InitialConfidence, mlUsed |-> FALSE]

\* routes.ts 628-665: the decision, the journal entry to write (its title, or
\* "none") and the response, from the signal and the outcome of the prediction
SignalOutcome(symbol, sig, ml) ==
    IF sig # "HOLD" /\ ml.mlUsed /\ ml.confidence < CONF_THRESHOLD
    THEN [entry |-> "Skipped trade: low confidence", entryType |-> "INSIGHT",
          response |-> [status |-> 200, symbol |-> symbol, rawSignal |-> sig,
                        decision |-> "HOLD", confidence |-> ml.confidence,
                        mlUsed |-> ml.mlUsed, skipped |-> TRUE]]
    ELSE [entry |-> IF sig # "HOLD" THEN "Signal accepted" ELSE "none",
          entryType |-> "TRADE",
          response |-> [status |-> 200, symbol |-> symbol, rawSignal |-> sig,
                        decision |-> sig, confidence |-> ml.confidence,
                        mlUsed |-> ml.mlUsed, skipped |-> FALSE]]

(***************************************************************************)
(* runBacktestSchema (schema.ts 101-108)                                   *)
(***************************************************************************)
Request(strategyId, symbol, timeframe, startDate, endDate, initialBalance) ==
    [strategyId |-> strategyId, symbol |-> symbol, timeframe |-> timeframe,
     startDate |-> startDate, endDate |-> endDate, initialBalance |-> initialBalance]

\* (mutant) the schema without the minimum on initialBalance
SchemaAcceptsAnyBalance(body) ==
    /\ body.strategyId # ""
    /\ body.symbol # ""
    /\ body.timeframe # ""
    /\ body.startDate.kind # "empty"
    /\ body.endDate.kind # "empty"

\* safeParse(req.body).success
SchemaAccepts(body) ==
    /\ body.strategyId # ""
    /\ body.symbol # ""
    /\ body.timeframe # ""
    /\ body.startDate.kind # "empty"
    /\ body.endDate.kind # "empty"
    /\ body.initialBalance >= 100

\* insertStrategySchema.safeParse(req.body).success
StrategySchemaAccepts(body) == body.name # "" /\ body.filename # "" /\ body.content # ""

(***************************************************************************)
(* State                                                                   *)
(***************************************************************************)
VARIABLES
    strategies,       \* MemStorage.strategies: id -> strategy
    backtestResults,  \* MemStorage.backtestResults, in insertion order
    barsCsv,          \* the file storage/backtests/latest_bars.csv
    pc,               \* per request slot: where its handler stands
    request,          \* per request slot: the body received
    held,             \* per request slot: the handler's locals kept across an await
    response,         \* per request slot: the response sent
    genIn,            \* arguments of a direct call of generateSimulatedBars
    genOut,           \* what that call produced
    liveTrades,       \* MemStorage.trades, in insertion order
    journalEntries,   \* MemStorage.journalEntries, in insertion order
    mt5Config,        \* MemStorage.mt5Config
    tradingStatus,    \* MemStorage.tradingStatus
    modelFile,        \* whether the file storage/ml_lr_model.joblib exists
    mlStatus,         \* the last response of GET /api/ml/status
    signal,           \* the POST /api/trading/simulate-signal request: position, locals, response
    train,            \* the POST /api/ml/train request: position, subprocess events, responses
    tradingOut,       \* the last response of the trading status/start/stop routes
    tradeOut,         \* the last response of the trade place/close routes
    strategiesCreated \* how many strategies createStrategy has made (its randomUUID calls)

\* the fields of the store that the backtest route never names
storeVars == <<liveTrades, journalEntries, mt5Config, tradingStatus>>

\* the ML model file and the state of the other routes' requests
apiVars == <<modelFile, mlStatus, signal, train, tradingOut, tradeOut, strategiesCreated>>

vars == <<strategies, backtestResults, barsCsv, pc, request, held, response, genIn, genOut,
          liveTrades, journalEntries, mt5Config, tradingStatus,
          modelFile, mlStatus, signal, train, tradingOut, tradeOut, strategiesCreated>>

NoSignal == [pc |-> "idle"]

NoTrain == [pc |-> "idle", responses |-> <<>>]

Slots == 1 .. MaxSlots

NoRequest == [none |-> TRUE]

NoHeld == [none |-> TRUE]

NoResponse == [status |-> 0]

NoGenIn == [none |-> TRUE]

NoGenOut == [called |-> FALSE]

Init ==
    /\ strategies = SampleStrategies
    /\ backtestResults = <<>>
    /\ barsCsv = NoFile
    /\ pc = [r \in Slots |-> "idle"]
    /\ request = [r \in Slots |-> NoRequest]
    /\ held = [r \in Slots |-> NoHeld]
    /\ response = [r \in Slots |-> NoResponse]
    /\ genIn = NoGenIn
    /\ genOut = NoGenOut
    /\ liveTrades = <<>>
    /\ journalEntries = SampleJournalEntries
    /\ mt5Config = SampleMT5Config
    /\ tradingStatus = InitialTradingStatus
    /\ modelFile = FALSE
    /\ mlStatus = NoResponse
    /\ signal = NoSignal
    /\ train = NoTrain
    /\ tradingOut = NoResponse
    /\ tradeOut = NoResponse
    /\ strategiesCreated = 0

(***************************************************************************)
(* POST /api/backtests/run (routes.ts 143-235), one action per stretch of  *)
(* the handler between awaits.                                             *)
(***************************************************************************)
\* lines 145-152: parse the body, 400 on failure, else call storage.getStrategy
\* and wait for it.  Slots are taken in order of arrival.
BacktestReceive(r, body) ==
    /\ pc[r] = "idle"
    /\ \A q \in Slots : q < r => pc[q] # "idle"
    /\ request' = [request EXCEPT ![r] = body]
    /\ IF ~SchemaAccepts(body)
       THEN /\ pc' = [pc EXCEPT ![r] = "done"]
            /\ response' = [response EXCEPT ![r] = [status |-> 400]]
            /\ held' = held
       ELSE /\ pc' = [pc EXCEPT ![r] = "awaitStrategy"]
            /\ held' = [held EXCEPT ![r] =
                            [strategy |-> getStrategy(strategies, body.strategyId)]]
            /\ response' = response
    /\ UNCHANGED <<strategies, backtestResults, barsCsv, genIn, genOut>>
    /\ UNCHANGED storeVars
    /\ UNCHANGED apiVars

\* (mutant) a successful run also stamps its strategy: lastRun, totalTrades
BacktestRunStampsStrategy(r, kt, kw, tape) ==
    /\ pc[r] = "awaitStrategy"
    /\ IF ~held[r].strategy.found
       THEN /\ pc' = [pc EXCEPT ![r] = "done"]
            /\ response' = [response EXCEPT ![r] = [status |-> 404]]
            /\ UNCHANGED <<backtestResults, barsCsv, held, strategies>>
       ELSE IF LoopThrows(request[r].startDate, TotalTradesOf(kt))
       THEN /\ pc' = [pc EXCEPT ![r] = "done"]
            /\ response' = [response EXCEPT ![r] = [status |-> 500]]
            /\ UNCHANGED <<backtestResults, barsCsv, held, strategies>>
       ELSE \E c \in {ComputeBacktest(request[r], held[r].strategy, kt, kw, tape)} :
                /\ barsCsv' = WriteFile(CsvContent(c.barsData))
                /\ backtestResults' = createBacktestResult(backtestResults, c.result)
                /\ held' = [held EXCEPT ![r] =
                                [strategy |-> held[r].strategy,
                                 result |-> NewBacktestResult(backtestResults, c.result),
                                 barsData |-> c.barsData,
                                 barsSaved |-> Len(c.barsData)]]
                /\ pc' = [pc EXCEPT ![r] = "awaitResult"]
                /\ response' = response
                /\ strategies' =
                        [id \in DOMAIN strategies |->
                            IF id = request[r].strategyId
                            THEN [strategies[id] EXCEPT !.lastRun = 1,
                                                        !.totalTrades = c.result.totalTrades]
                            ELSE strategies[id]]
    /\ UNCHANGED <<request, genIn, genOut>>
    /\ UNCHANGED storeVars
    /\ UNCHANGED apiVars

\* lines 153-229: 404 when no strategy was found; else the computation, the CSV
\* write and storage.createBacktestResult, then wait for it; a throw is caught
\* at line 232 and answered 500
BacktestRun(r, kt, kw, tape) ==
    /\ pc[r] = "awaitStrategy"
    /\ IF ~held[r].strategy.found
       THEN /\ pc' = [pc EXCEPT ![r] = "done"]
            /\ response' = [response EXCEPT ![r] = [status |-> 404]]
            /\ UNCHANGED <<backtestResults, barsCsv, held>>
       ELSE IF LoopThrows(request[r].startDate, TotalTradesOf(kt))
       THEN /\ pc' = [pc EXCEPT ![r] = "done"]
            /\ response' = [response EXCEPT ![r] = [status |-> 500]]
            /\ UNCHANGED <<backtestResults, barsCsv, held>>
       ELSE \E c \in {ComputeBacktest(request[r], held[r].strategy, kt, kw, tape)} :
                /\ barsCsv' = WriteFile(CsvContent(c.barsData))
                /\ backtestResults' = createBacktestResult(backtestResults, c.result)
                /\ held' = [held EXCEPT ![r] =
                                [strategy |-> held[r].strategy,
                                 result |-> NewBacktestResult(backtestResults, c.result),
                                 barsData |-> c.barsData,
                                 barsSaved |-> Len(c.barsData)]]
                /\ pc' = [pc EXCEPT ![r] = "awaitResult"]
                /\ response' = response
    /\ UNCHANGED <<strategies, request, genIn, genOut>>
    /\ UNCHANGED storeVars
    /\ UNCHANGED apiVars

\* (mutant) the CSV is written after the wait for createBacktestResult
BacktestRespondWritesCsv(r) ==
    /\ pc[r] = "awaitResult"
    /\ pc' = [pc EXCEPT ![r] = "done"]
    /\ barsCsv' = WriteFile(CsvContent(held[r].barsData))
    /\ response' = [response EXCEPT ![r] =
                        [status |-> 200, result |-> held[r].result,
                         barsSaved |-> held[r].barsSaved]]
    /\ UNCHANGED <<strategies, backtestResults, request, held, genIn, genOut>>
    /\ UNCHANGED storeVars
    /\ UNCHANGED apiVars

\* line 231: res.json({ ...result, barsSaved, barsPath })
BacktestRespond(r) ==
    /\ pc[r] = "awaitResult"
    /\ pc' = [pc EXCEPT ![r] = "done"]
    /\ response' = [response EXCEPT ![r] =
                        [status |-> 200, result |-> held[r].result,
                         barsSaved |-> held[r].barsSaved]]
    /\ UNCHANGED <<strategies, backtestResults, barsCsv, request, held, genIn, genOut>>
    /\ UNCHANGED storeVars
    /\ UNCHANGED apiVars

\* DELETE /api/strategies/:id (routes.ts 122-132)
DeleteStrategy(id) ==
    /\ strategies' = deleteStrategy(strategies, id)
    /\ UNCHANGED <<backtestResults, barsCsv, pc, request, held, response, genIn, genOut>>
    /\ UNCHANGED storeVars
    /\ UNCHANGED apiVars

\* the variables of the backtest route and of the direct call
runVars == <<backtestResults, barsCsv, pc, request, held, response, genIn, genOut>>

\* insertMT5ConfigSchema.safeParse(req.body).success
MT5SchemaAccepts(body) == body.login # "" /\ body.password # "" /\ body.server # ""

\* POST /api/mt5/connect (routes.ts 29-49)
Mt5Connect(body, r1, r2, r3) ==
    /\ mt5Config' = IF MT5SchemaAccepts(body)
                     THEN ConnectedMT5Config(body, r1, r2, r3)
                     ELSE mt5Config
    /\ UNCHANGED <<strategies, liveTrades, journalEntries, tradingStatus>>
    /\ UNCHANGED runVars
    /\ UNCHANGED apiVars

\* POST /api/mt5/disconnect (routes.ts 51-60)
Mt5Disconnect ==
    /\ mt5Config' = DisconnectedMT5Config(mt5Config)
    /\ UNCHANGED <<strategies, liveTrades, journalEntries, tradingStatus>>
    /\ UNCHANGED runVars
    /\ UNCHANGED apiVars

\* GET /api/trading/status (routes.ts 411-418)
GetTradingStatus ==
    /\ tradingOut' = [status |-> 200, body |-> getTradingStatus(tradingStatus, liveTrades)]
    /\ UNCHANGED <<strategies, liveTrades, journalEntries, mt5Config, tradingStatus>>
    /\ UNCHANGED runVars
    /\ UNCHANGED <<modelFile, mlStatus, signal, train, tradeOut, strategiesCreated>>

\* POST /api/trading/start (routes.ts 420-442): strategyIds || []
TradingStart(strategyIds) ==
    /\ Len(journalEntries) < MaxJournal
    /\ tradingStatus' = updateTradingStatus(tradingStatus, TRUE, strategyIds)
    /\ journalEntries' = createJournalEntry(journalEntries, "INSIGHT", "Trading Engine Started")
    /\ tradingOut' = [status |-> 200, body |-> tradingStatus']
    /\ UNCHANGED <<strategies, liveTrades, mt5Config>>
    /\ UNCHANGED runVars
    /\ UNCHANGED <<modelFile, mlStatus, signal, train, tradeOut, strategiesCreated>>

\* POST /api/trading/stop (routes.ts 444-454)
TradingStop ==
    /\ tradingStatus' = updateTradingStatus(tradingStatus, FALSE, <<>>)
    /\ tradingOut' = [status |-> 200, body |-> tradingStatus']
    /\ UNCHANGED <<strategies, liveTrades, journalEntries, mt5Config>>
    /\ UNCHANGED runVars
    /\ UNCHANGED <<modelFile, mlStatus, signal, train, tradeOut, strategiesCreated>>

\* (mutant) the trade is placed without the test of config.connected
PlaceTradeUnconnected(body, r1, r2) ==
    /\ Len(liveTrades) < MaxLiveTrades
    /\ IF body.symbol = "" \/ body.type = "" \/ body.volume = 0
       THEN /\ tradeOut' = [status |-> 400]
            /\ UNCHANGED liveTrades
       ELSE \E trade \in {PlacedTrade(liveTrades, body, ActiveStrategy(strategies), r1, r2)} :
                /\ liveTrades' = Append(liveTrades, trade)
                /\ tradeOut' = [status |-> 200, body |-> trade]
    /\ UNCHANGED <<strategies, journalEntries, mt5Config, tradingStatus>>
    /\ UNCHANGED runVars
    /\ UNCHANGED <<modelFile, mlStatus, signal, train, tradingOut, strategiesCreated>>

\* POST /api/trades/place (routes.ts 297-338): 400 when a field is missing (volume
\* 0 counts as missing) or MT5 is not connected, else the trade is created
PlaceTrade(body, r1, r2) ==
    /\ Len(liveTrades) < MaxLiveTrades
    /\ IF body.symbol = "" \/ body.type = "" \/ body.volume = 0 \/ ~mt5Config.connected
       THEN /\ tradeOut' = [status |-> 400]
            /\ UNCHANGED liveTrades
       ELSE \E trade \in {PlacedTrade(liveTrades, body, ActiveStrategy(strategies), r1, r2)} :
                /\ liveTrades' = Append(liveTrades, trade)
                /\ tradeOut' = [status |-> 200, body |-> trade]
    /\ UNCHANGED <<strategies, journalEntries, mt5Config, tradingStatus>>
    /\ UNCHANGED runVars
    /\ UNCHANGED <<modelFile, mlStatus, signal, train, tradingOut, strategiesCreated>>

\* POST /api/trades/:id/close (routes.ts 340-350): 404 when closeTrade returns
\* undefined
CloseTrade(id) ==
    /\ liveTrades' = closeTrade(liveTrades, id)
    /\ tradeOut' = IF TradeKnown(liveTrades, id)
                   THEN [status |-> 200, body |-> ClosedTrade(liveTrades, id)]
                   ELSE [status |-> 404]
    /\ UNCHANGED <<strategies, journalEntries, mt5Config, tradingStatus>>
    /\ UNCHANGED runVars
    /\ UNCHANGED <<modelFile, mlStatus, signal, train, tradingOut, strategiesCreated>>

(***************************************************************************)
(* Spec: the server under concurrent requests.  Small request and draw     *)
(* sets keep the interleavings enumerable.                                 *)
(***************************************************************************)
UnknownStrategyId == "s0"

ServerRequests ==
    {Request("s1", "EURUSD", "H1", DateString("plain", 0), DateString("plain", 0), 10000),
     Request("s1", "EURUSD", "H1", DateString("plain", 0), DateString("plain", 2 * GridMs), 10000),
     Request("s2", "USDJPY", "H1", DateString("plain", 0), DateString("plain", 3 * GridMs), 10000),
     Request(UnknownStrategyId, "EURUSD", "H1", DateString("plain", 0), DateString("plain", 0), 10000),
     Request("s1", "EURUSD", "H1", DateString("plain", 0), DateString("plain", 0), 50),
     Request("", "EURUSD", "H1", DateString("plain", 0), DateString("plain", 0), 10000),
     Request("s1", "", "H1", DateString("plain", 0), DateString("plain", 0), 10000),
     Request("s1", "EURUSD", "", DateString("plain", 0), DateString("plain", 0), 10000),
     Request("s1", "EURUSD", "H1", EmptyDate, DateString("plain", 0), 10000),
     Request("s1", "EURUSD", "H1", DateString("plain", 0), EmptyDate, 10000),
     Request("s1", "EURUSD", "H1", InvalidDate, DateString("plain", 0), 10000)}

ServerTapes == {[i \in 0 .. TapeLen - 1 |-> 0], [i \in 0 .. TapeLen - 1 |-> RndDen - 1]}

Next ==
    \/ \E r \in Slots, body \in ServerRequests : BacktestReceive(r, body)
    \/ \E r \in Slots, tape \in ServerTapes : BacktestRun(r, 0, 0, tape)
    \/ \E r \in Slots : BacktestRespond(r)
    \/ \E id \in SampleStrategyIds \cup {UnknownStrategyId} : DeleteStrategy(id)

Spec == Init /\ [][Next]_vars

(***************************************************************************)
(* SpecRun: one backtest request, over every draw of totalTrades and       *)
(* winRate at the resolutions HeadDen and WinDen and every tape.           *)
(***************************************************************************)
RunStart == DateString("plain", GridMs)

RunRequests ==
    {Request("s1", "EURUSD", "H1", RunStart, DateString("plain", GridMs), 10000),
     Request("s1", "USDJPY", "H1", RunStart, DateString("iso", GridMs), 10000),
     Request("s1", "EURUSD", "H1", RunStart, DateString("plain", MaxDateSteps * GridMs), 10000)}

NextRun ==
    \/ \E body \in RunRequests : BacktestReceive(1, body)
    \/ \E kt \in 0 .. HeadDen - 1, kw \in 0 .. WinDen - 1, tape \in Tapes :
            BacktestRun(1, kt, kw, tape)
    \/ BacktestRespond(1)

SpecRun == Init /\ [][NextRun]_vars

(***************************************************************************)
(* SpecStore: one backtest request among the routes that write the other   *)
(* fields of the store.                                                    *)
(***************************************************************************)
StoreRequests ==
    {Request("s1", "EURUSD", "H1", DateString("plain", 0), DateString("plain", 2 * GridMs), 10000),
     Request("s2", "EURUSD", "H1", DateString("plain", 0), DateString("plain", 0), 10000),
     Request(UnknownStrategyId, "EURUSD", "H1", DateString("plain", 0), DateString("plain", 0), 10000),
     Request("s1", "EURUSD", "H1", DateString("plain", 0), DateString("plain", 0), 50),
     Request("s1", "EURUSD", "H1", InvalidDate, DateString("plain", 0), 10000)}

MT5Bodies ==
    {[login |-> "demo", password |-> "pw", server |-> "srv"],
     [login |-> "", password |-> "pw", server |-> "srv"]}

TradeBodies ==
    {[symbol |-> "EURUSD", type |-> "BUY", volume |-> 10],
     [symbol |-> "EURUSD", type |-> "SELL", volume |-> 0]}

NextStore ==
    \/ \E body \in StoreRequests : BacktestReceive(1, body)
    \/ \E tape \in ServerTapes : BacktestRun(1, 0, 0, tape)
    \/ BacktestRespond(1)
    \/ DeleteStrategy("s1")
    \/ \E body \in MT5Bodies : Mt5Connect(body, 0, RndDen - 1, 0)
    \/ Mt5Disconnect
    \/ \E ids \in {<<>>, <<"s1">>} : TradingStart(ids)
    \/ TradingStop
    \/ \E body \in TradeBodies : PlaceTrade(body, 0, RndDen - 1)
    \/ \E id \in {1, MaxLiveTrades + 1} : CloseTrade(id)
    \/ GetTradingStatus

SpecStore == Init /\ [][NextStore]_vars

\* POST /api/strategies (routes.ts 96-108)
CreateStrategy(body) ==
    /\ strategiesCreated < MaxCreated
    /\ strategiesCreated < Len(NewStrategyIds)
    /\ IF StrategySchemaAccepts(body)
       THEN /\ strategies' = createStrategy(strategies, body, strategiesCreated + 1)
            /\ strategiesCreated' = strategiesCreated + 1
       ELSE UNCHANGED <<strategies, strategiesCreated>>
    /\ UNCHANGED <<modelFile, mlStatus, signal, train, tradingOut, tradeOut>>
    /\ UNCHANGED runVars
    /\ UNCHANGED storeVars

\* PATCH /api/strategies/:id (routes.ts 110-120): req.body is passed as it came
PatchStrategy(id, updates) ==
    /\ strategies' = updateStrategy(strategies, id, updates)
    /\ UNCHANGED apiVars
    /\ UNCHANGED runVars
    /\ UNCHANGED storeVars

(***************************************************************************)
(* SpecStrategies: the strategy routes create, PATCH and DELETE.           *)
(***************************************************************************)
StrategyBodies ==
    {[name |-> "Breakout", filename |-> "breakout.py", content |-> "code"],
     [name |-> "", filename |-> "breakout.py", content |-> "code"]}

\* a new name, a new isActive, an id no strategy has, the id of another strategy
PatchBodies ==
    {[name |-> "Renamed"], [isActive |-> TRUE], [id |-> "x9"], [id |-> "s2", name |-> "Renamed"]}

StrategyIds == SampleStrategyIds \cup {NewStrategyIds[1], UnknownStrategyId}

NextStrategies ==
    \/ \E body \in StrategyBodies : CreateStrategy(body)
    \/ \E id \in StrategyIds, updates \in PatchBodies : PatchStrategy(id, updates)
    \/ \E id \in StrategyIds : DeleteStrategy(id)

SpecStrategies == Init /\ [][NextStrategies]_vars

(***************************************************************************)
(* The ML routes                                                           *)
(***************************************************************************)
\* GET /api/ml/status (routes.ts 532-555)
MlStatus ==
    /\ mlStatus' = [status |-> 200,
                    modelTrained |-> modelFile,
                    trainingDataAvailable |-> barsCsv.exists,
                    barCount |-> MlStatusBarCount(barsCsv)]
    /\ UNCHANGED <<strategies, modelFile, signal, train, tradingOut, tradeOut, strategiesCreated>>
    /\ UNCHANGED runVars
    /\ UNCHANGED storeVars

\* POST /api/ml/train (routes.ts 472-488): 400 without the bars CSV, else the
\* subprocess is spawned and the listeners for its events are registered
MlTrain ==
    /\ train.pc = "idle"
    /\ train' = IF ~barsCsv.exists
                THEN [pc |-> "done", responses |-> <<400>>]
                ELSE [pc |-> "spawned", responses |-> <<>>, errorSeen |-> FALSE,
                      closeSeen |-> FALSE]
    /\ UNCHANGED <<strategies, modelFile, mlStatus, signal, tradingOut, tradeOut, strategiesCreated>>
    /\ UNCHANGED runVars
    /\ UNCHANGED storeVars

\* python.on("error", ...) (routes.ts 521-526): the subprocess could not be
\* spawned; the listener sends a 500.  The event comes once, before "close".
MlTrainOnError ==
    /\ train.pc = "spawned"
    /\ ~train.errorSeen
    /\ ~train.closeSeen
    /\ train' = [train EXCEPT !.errorSeen = TRUE, !.responses = Append(@, 500)]
    /\ UNCHANGED <<strategies, modelFile, mlStatus, signal, tradingOut, tradeOut, strategiesCreated>>
    /\ UNCHANGED runVars
    /\ UNCHANGED storeVars

\* python.on("close", (code) => ...) (routes.ts 500-519): 200 when code is 0,
\* else 500.  After a failed spawn the code is not 0.  A training that ended
\* with code 0 may have written the model file.
MlTrainOnClose(code, wroteModel) ==
    /\ train.pc = "spawned"
    /\ ~train.closeSeen
    /\ train.errorSeen => code # 0
    /\ wroteModel => code = 0
    /\ modelFile' = (modelFile \/ wroteModel)
    /\ train' = [train EXCEPT !.closeSeen = TRUE,
                              !.responses = Append(@, IF code = 0 THEN 200 ELSE 500)]
    /\ UNCHANGED <<strategies, mlStatus, signal, tradingOut, tradeOut, strategiesCreated>>
    /\ UNCHANGED runVars
    /\ UNCHANGED storeVars

\* POST /api/trading/simulate-signal up to the wait for the predictor (routes.ts
\* 557-609): 400 when trading is not active; the predictor is spawned when the
\* model file and the bars CSV exist and the signal is not HOLD; otherwise the
\* handler goes on to its decision, journal entry and response at once
SimulateSignal(ks, kr) ==
    /\ signal.pc = "idle"
    /\ IF ~tradingStatus.isActive
       THEN /\ signal' = [pc |-> "done", response |-> [status |-> 400]]
            /\ journalEntries' = journalEntries
       ELSE IF modelFile /\ barsCsv.exists /\ SignalOf(kr) # "HOLD"
       THEN /\ signal' = [pc |-> "awaitPredict", symbol |-> SymbolOf(ks),
                          rawSignal |-> SignalOf(kr),
                          records |-> PredictorRecords(barsCsv.content)]
            /\ journalEntries' = journalEntries
       ELSE \E o \in {SignalOutcome(SymbolOf(ks), SignalOf(kr),
                                    [confidence |-> InitialConfidence, mlUsed |-> FALSE])} :
                /\ signal' = [pc |-> "done", response |-> o.response]
                /\ journalEntries' =
                        IF o.entry = "none" THEN journalEntries
                        ELSE createJournalEntry(journalEntries, o.entryType, o.entry)
    /\ UNCHANGED <<strategies, liveTrades, mt5Config, tradingStatus>>
    /\ UNCHANGED <<modelFile, mlStatus, train, tradingOut, tradeOut, strategiesCreated>>
    /\ UNCHANGED runVars

\* the close event of the predictor and the rest of the handler (routes.ts
\* 610-665); out is what the subprocess wrote to stdout
SignalPredictClose(out) ==
    /\ signal.pc = "awaitPredict"
    /\ \E o \in {SignalOutcome(signal.symbol, signal.rawSignal, AfterPrediction(out))} :
            /\ signal' = [pc |-> "done", records |-> signal.records,
                          response |-> o.response]
            /\ journalEntries' =
                    IF o.entry = "none" THEN journalEntries
                    ELSE createJournalEntry(journalEntries, o.entryType, o.entry)
    /\ UNCHANGED <<strategies, liveTrades, mt5Config, tradingStatus>>
    /\ UNCHANGED <<modelFile, mlStatus, train, tradingOut, tradeOut, strategiesCreated>>
    /\ UNCHANGED runVars

(***************************************************************************)
(* SpecMl: one backtest request, the ML status route and one training      *)
(* request with the events of its subprocess.                              *)
(***************************************************************************)
MlRequests ==
    {Request("s1", "EURUSD", "H1", DateString("plain", 0), DateString("plain", 0), 10000),
     Request("s1", "EURUSD", "H1", DateString("plain", 0), DateString("plain", 2 * GridMs), 10000),
     Request("s2", "USDJPY", "H1", DateString("plain", 0), DateString("plain", 3 * GridMs), 10000),
     Request("s1", "EURUSD", "H1", DateString("plain", 0), DateString("plain", 0), 50)}

NextMl ==
    \/ \E body \in MlRequests : BacktestReceive(1, body)
    \/ \E tape \in ServerTapes : BacktestRun(1, 0, 0, tape)
    \/ BacktestRespond(1)
    \/ MlStatus
    \/ MlTrain
    \/ MlTrainOnError
    \/ \E code \in {0, 1}, wroteModel \in BOOLEAN : MlTrainOnClose(code, wroteModel)

SpecMl == Init /\ [][NextMl]_vars

(***************************************************************************)
(* SpecSignal: one simulate-signal request among trading start and stop,   *)
(* after a backtest run wrote the bars CSV and a training the model file.  *)
(***************************************************************************)
SignalRequests ==
    {Request("s1", "EURUSD", "H1", DateString("plain", 0), DateString("plain", 0), 10000),
     Request("s2", "USDJPY", "H1", DateString("plain", 0), DateString("plain", 3 * GridMs), 10000)}

\* what the predictor may print: text that is no JSON, a failure, a confidence
PredictOutputs ==
    {[parsed |-> FALSE], [parsed |-> TRUE, success |-> FALSE]}
    \cup {[parsed |-> TRUE, success |-> TRUE, confidence |-> c] : c \in {0, 54, 55, 100}}

NextSignal ==
    \/ \E body \in SignalRequests : BacktestReceive(1, body)
    \/ BacktestRun(1, 0, 0, [i \in 0 .. TapeLen - 1 |-> 0])
    \/ BacktestRespond(1)
    \/ MlTrain
    \/ MlTrainOnClose(0, TRUE)
    \/ TradingStart(<<"s1">>)
    \/ TradingStop
    \/ \E ks \in {0, SigDen - 1}, kr \in 0 .. SigDen - 1 : SimulateSignal(ks, kr)
    \/ \E out \in PredictOutputs : SignalPredictClose(out)

SpecSignal == Init /\ [][NextSignal]_vars

(***************************************************************************)
(* SpecBars: generateSimulatedBars as a function of its arguments and of   *)
(* the draws.                                                              *)
(***************************************************************************)
GenDates ==
    {DateString(k, s * GridMs) : k \in {"iso", "plain"}, s \in 0 .. MaxDateSteps}
    \cup {InvalidDate}

GenInputs ==
    [startDate : GenDates, endDate : GenDates, symbol : {"EURUSD", "USDJPY"}, tape : Tapes]

InitBars ==
    /\ strategies = SampleStrategies
    /\ backtestResults = <<>>
    /\ barsCsv = NoFile
    /\ pc = [r \in Slots |-> "idle"]
    /\ request = [r \in Slots |-> NoRequest]
    /\ held = [r \in Slots |-> NoHeld]
    /\ response = [r \in Slots |-> NoResponse]
    /\ genIn \in GenInputs
    /\ genOut = NoGenOut
    /\ liveTrades = <<>>
    /\ journalEntries = SampleJournalEntries
    /\ mt5Config = SampleMT5Config
    /\ tradingStatus = InitialTradingStatus
    /\ modelFile = FALSE
    /\ mlStatus = NoResponse
    /\ signal = NoSignal
    /\ train = NoTrain
    /\ tradingOut = NoResponse
    /\ tradeOut = NoResponse
    /\ strategiesCreated = 0

\* a call generateSimulatedBars(startDate, endDate, symbol): the function has no
\* throw and no failing return, so the call returns its bars
GenerateBars ==
    /\ ~genOut.called
    /\ genOut' = [called |-> TRUE, outcome |-> "returned",
                  bars |-> generateSimulatedBars(genIn.startDate, genIn.endDate,
                                                 genIn.symbol, genIn.tape, 0)]
    /\ UNCHANGED <<strategies, backtestResults, barsCsv, pc, request, held, response, genIn>>
    /\ UNCHANGED storeVars
    /\ UNCHANGED apiVars

NextBars == GenerateBars

SpecBars == InitBars /\ [][NextBars]_vars

(***************************************************************************)
(* Properties                                                              *)
(***************************************************************************)
\* the requests answered 200
Succeeded == {r \in Slots : response[r].status = 200}

\* the results returned to callers and the results held by the store
ReturnedResults == {response[r].result.data : r \in Succeeded}

StoredResults == {backtestResults[i].data : i \in 1 .. Len(backtestResults)}

AllResults == ReturnedResults \cup StoredResults

\* C1: every stored or returned result has totalTrades > 0 and
\* winRate = winningTrades / totalTrades * 100 (winRate is a numerator over WinDen,
\* so the equation is winRate * totalTrades = winningTrades * 100 * WinDen)
C1_WinRateIsRatio ==
    \A res \in AllResults :
        /\ res.totalTrades > 0
        /\ res.winRate * res.totalTrades = res.winningTrades * 100 * WinDen

\* C2: in every stored or returned result, totalProfit is the sum of the profits
\* of the trades of its trade list and finalBalance = initialBalance + totalProfit
C2_FinalBalance ==
    \A res \in AllResults :
        /\ res.totalProfit = SumSeq([i \in 1 .. Len(res.trades) |-> res.trades[i].profit])
        /\ res.finalBalance = res.initialBalance + res.totalProfit

\* a run was answered whose trades lose on balance, some winning and some losing
C2_Witness ==
    \E r \in Succeeded :
        LET res == response[r].result.data
        IN  /\ res.totalProfit < 0
            /\ res.winningTrades > 0
            /\ res.losingTrades > 0
            /\ res.finalBalance < res.initialBalance

\* C3: in every stored or returned result, winningTrades + losingTrades =
\* totalTrades and 0 <= winningTrades <= totalTrades
C3_TradeCounts ==
    \A res \in AllResults :
        /\ res.winningTrades + res.losingTrades = res.totalTrades
        /\ 0 <= res.winningTrades
        /\ res.winningTrades <= res.totalTrades

\* a run with the largest trade count was answered, with wins and losses
C3_Witness ==
    \E r \in Succeeded :
        LET res == response[r].result.data
        IN  res.totalTrades = 69 /\ res.winningTrades > 0 /\ res.losingTrades > 0

\* C4: the equity curve of every successful run is non-empty and starts with the
\* initialBalance of its request; so does the curve of every stored result
C4_EquityCurveStart ==
    /\ \A r \in Succeeded :
            LET res == response[r].result.data
            IN  /\ Len(res.equityCurve) >= 1
                /\ res.equityCurve[1] = Money(request[r].initialBalance)
    /\ \A res \in StoredResults :
            /\ Len(res.equityCurve) >= 1
            /\ res.equityCurve[1] = res.initialBalance

\* a run was answered whose curve goes on after its first sample
C4_Witness ==
    \E r \in Succeeded :
        LET res == response[r].result.data
        IN  /\ Len(res.equityCurve) > 1
            /\ res.equityCurve[2] # res.equityCurve[1]
            /\ res.equityCurve[1] = Money(10000)

(***************************************************************************)
(* Properties of generateSimulatedBars, under SpecBars                     *)
(***************************************************************************)
\* the bar interval of the claims, 5 minutes in milliseconds
FiveMinutesMs == 300000

GenStart == DateGetTime(genIn.startDate)

GenEnd == DateGetTime(genIn.endDate)

GenDatesParse == GenStart # NaN /\ GenEnd # NaN

\* C5: every bar returned has low <= min(open, close) and high >= max(open, close)
C5_BarLowHigh ==
    genOut.called =>
        \A i \in 1 .. Len(genOut.bars) :
            LET bar == genOut.bars[i]
            IN  /\ bar.low <= Min(bar.open, bar.close)
                /\ bar.high >= Max(bar.open, bar.close)

\* a JPY call returned several bars, a falling one and a rising one, each with its
\* low and high strictly outside the body
C5_Witness ==
    /\ genOut.called
    /\ IncludesJPY(genIn.symbol)
    /\ Len(genOut.bars) >= 2
    /\ \E i \in 1 .. Len(genOut.bars) :
            LET bar == genOut.bars[i]
            IN  bar.close < bar.open /\ bar.low < bar.close /\ bar.high > bar.open
    /\ \E i \in 1 .. Len(genOut.bars) :
            LET bar == genOut.bars[i]
            IN  bar.close > bar.open /\ bar.low < bar.open /\ bar.high > bar.close

\* C6: the bars are time-ascending from startDate in steps of exactly 5 minutes,
\* every bar's time is strictly before endDate, and the bars cover
\* [startDate, endDate): a non-empty range gets a first bar and the last bar's
\* interval reaches endDate
C6_BarTimes ==
    genOut.called =>
        /\ \A i \in 1 .. Len(genOut.bars) :
                /\ genOut.bars[i].time = ToISOString(GenStart + (i - 1) * FiveMinutesMs)
                /\ DateGetTime(genOut.bars[i].time) < GenEnd
        /\ (GenDatesParse /\ GenStart < GenEnd) =>
                /\ Len(genOut.bars) >= 1
                /\ DateGetTime(genOut.bars[Len(genOut.bars)].time) + FiveMinutesMs >= GenEnd

\* a call returned at least three bars for a range that is no multiple of 5 minutes
C6_Witness ==
    /\ genOut.called
    /\ Len(genOut.bars) >= 3
    /\ GenStart > 0
    /\ (GenEnd - GenStart) % FiveMinutesMs # 0

\* C7 as stated: whenever endDate - startDate is smaller than one interval, also
\* when it is positive, the call returns the empty sequence without an error
C7_EmptyBelowInterval ==
    (genOut.called /\ GenDatesParse /\ GenEnd - GenStart < FiveMinutesMs) =>
        genOut.outcome = "returned" /\ genOut.bars = <<>>

\* C7 amended: the call returns without an error; it returns the empty sequence
\* when endDate - startDate is zero or negative, and exactly one bar, at
\* startDate, when the span is positive and shorter than one interval
C7_EmptyIffNoSpan ==
    (genOut.called /\ GenDatesParse) =>
        /\ genOut.outcome = "returned"
        /\ GenEnd - GenStart <= 0 => genOut.bars = <<>>
        /\ (0 < GenEnd - GenStart /\ GenEnd - GenStart < FiveMinutesMs) =>
                /\ Len(genOut.bars) = 1
                /\ DateGetTime(genOut.bars[1].time) = GenStart

\* a call with a positive span shorter than one interval returned
C7_Witness ==
    /\ genOut.called
    /\ GenDatesParse
    /\ 0 < GenEnd - GenStart
    /\ GenEnd - GenStart < FiveMinutesMs
    /\ Len(genOut.bars) = 1

\* C8 as stated: a call with startDate >= endDate ends with InvalidRangeError
C8_InvalidRangeError ==
    (genOut.called /\ GenDatesParse /\ GenStart >= GenEnd) =>
        genOut.outcome = "InvalidRangeError"

\* C8 amended: a call with startDate >= endDate returns the empty sequence and
\* raises no error
C8_EmptyOnReversedRange ==
    (genOut.called /\ GenDatesParse /\ GenStart >= GenEnd) =>
        genOut.outcome = "returned" /\ genOut.bars = <<>>

\* a call with startDate strictly after endDate returned
C8_Witness ==
    /\ genOut.called
    /\ GenDatesParse
    /\ GenStart > GenEnd
    /\ genOut.outcome = "returned"

(***************************************************************************)
(* Properties of the backtest route                                        *)
(***************************************************************************)
\* C9 (SpecRun): a request whose startDate and endDate are the same instant, for a
\* strategy that exists, is answered 200 with barsSaved = 0 and a result that is
\* stored, has totalTrades trades and left the CSV holding the header alone
C9_EqualDatesSucceed ==
    \A r \in Slots :
        (/\ pc[r] = "done"
         /\ SchemaAccepts(request[r])
         /\ request[r].strategyId \in SampleStrategyIds
         /\ DateGetTime(request[r].startDate) # NaN
         /\ DateGetTime(request[r].startDate) = DateGetTime(request[r].endDate))
        => /\ response[r].status = 200
           /\ response[r].barsSaved = 0
           /\ Len(response[r].result.data.trades) = response[r].result.data.totalTrades
           /\ response[r].result.data.totalTrades >= 20
           /\ \E i \in 1 .. Len(backtestResults) : backtestResults[i] = response[r].result
           /\ barsCsv = WriteFile(csvHeader)

\* such a request was answered, its two dates written differently
C9_Witness ==
    \E r \in Slots :
        /\ pc[r] = "done"
        /\ response[r].status = 200
        /\ request[r].startDate # request[r].endDate
        /\ DateGetTime(request[r].startDate) = DateGetTime(request[r].endDate)
        /\ response[r].barsSaved = 0

\* C10 (Spec): a lookup of a strategyId that is not in the store finds nothing,
\* the handler then answers 404, and neither step changes the stored results or
\* the bars CSV
C10_NotFoundPersistsNothing ==
    [][\A r \in Slots :
        /\ (/\ pc[r] = "idle"
            /\ pc'[r] = "awaitStrategy"
            /\ request'[r].strategyId \notin DOMAIN strategies)
           => /\ ~held'[r].strategy.found
              /\ backtestResults' = backtestResults
              /\ barsCsv' = barsCsv
        /\ (/\ pc[r] = "awaitStrategy"
            /\ ~held[r].strategy.found
            /\ pc'[r] # pc[r])
           => /\ pc'[r] = "done"
              /\ response'[r].status = 404
              /\ backtestResults' = backtestResults
              /\ barsCsv' = barsCsv]_vars

\* a request for a sample strategy deleted before it arrived was answered 404,
\* after another run had stored a result and written the CSV
C10_Witness ==
    \E r \in Slots :
        /\ response[r].status = 404
        /\ request[r].strategyId \in SampleStrategyIds
        /\ request[r].strategyId \notin DOMAIN strategies
        /\ Len(backtestResults) = 1
        /\ barsCsv.exists

\* C11 (Spec): a request with initialBalance < 100 or with an empty strategyId,
\* symbol, timeframe, startDate or endDate is answered 400 in the step that
\* receives it, without a strategy lookup, and that step leaves the stored
\* results and the bars CSV as they were
C11_ValidationRejects ==
    [][\A r \in Slots :
        (/\ pc[r] = "idle"
         /\ pc'[r] # "idle"
         /\ \/ request'[r].initialBalance < 100
            \/ request'[r].strategyId = ""
            \/ request'[r].symbol = ""
            \/ request'[r].timeframe = ""
            \/ request'[r].startDate = EmptyDate
            \/ request'[r].endDate = EmptyDate)
        => /\ pc'[r] = "done"
           /\ response'[r].status = 400
           /\ held'[r] = NoHeld
           /\ backtestResults' = backtestResults
           /\ barsCsv' = barsCsv]_vars

\* a request with initialBalance 50 and one with an empty startDate were both
\* answered 400
C11_Witness ==
    /\ \E r \in Slots :
            /\ response[r].status = 400
            /\ request[r].initialBalance = 50
            /\ held[r] = NoHeld
    /\ \E r \in Slots :
            /\ response[r].status = 400
            /\ request[r].startDate = EmptyDate

\* C12 as stated (SpecRun): in every result trade i (from 0) has profit in
\* [50, 250) when i < winningTrades and in [-180, -30) otherwise, the trades with
\* positive profit number winningTrades and those with negative profit losingTrades
C12_FrontLoadedWins ==
    \A res \in AllResults :
        /\ \A i \in 1 .. Len(res.trades) :
                IF i - 1 < res.winningTrades
                THEN Money(50) <= res.trades[i].profit /\ res.trades[i].profit < Money(250)
                ELSE Money(-180) <= res.trades[i].profit /\ res.trades[i].profit < Money(-30)
        /\ Len(SelectSeq(Profits(res.trades), LAMBDA p : p > 0)) = res.winningTrades
        /\ Len(SelectSeq(Profits(res.trades), LAMBDA p : p < 0)) = res.losingTrades

\* C12 amended: the same with the losses in (-180, -30], the interval of
\* -(Math.random() * 150 + 30) for a draw in [0, 1)
C12_FrontLoadedWinsLossInterval ==
    \A res \in AllResults :
        /\ \A i \in 1 .. Len(res.trades) :
                IF i - 1 < res.winningTrades
                THEN Money(50) <= res.trades[i].profit /\ res.trades[i].profit < Money(250)
                ELSE Money(-180) < res.trades[i].profit /\ res.trades[i].profit <= Money(-30)
        /\ Len(SelectSeq(Profits(res.trades), LAMBDA p : p > 0)) = res.winningTrades
        /\ Len(SelectSeq(Profits(res.trades), LAMBDA p : p < 0)) = res.losingTrades

\* a run was answered that has a winning trade of exactly 50, a losing trade of
\* exactly -30 and a losing trade below -30
C12_Witness ==
    \E r \in Succeeded :
        LET trades == response[r].result.data.trades
        IN  /\ \E i \in 1 .. Len(trades) : trades[i].profit = Money(50)
            /\ \E i \in 1 .. Len(trades) : trades[i].profit = Money(-30)
            /\ \E i \in 1 .. Len(trades) : trades[i].profit < Money(-30)

\* C13 (SpecRun): the equity curve of every result is initialBalance followed by
\* one sample for each trade index i = 0, 3, 6, ... below totalTrades, the sample
\* for i being initialBalance plus the profits of trades 0 .. i; its length is
\* 1 + ceil(totalTrades / 3)
C13_EquityCurveSamples ==
    \A res \in AllResults :
        LET profits == Profits(res.trades)
        IN  /\ Len(res.equityCurve) = 1 + (res.totalTrades + 2) \div 3
            /\ res.equityCurve[1] = res.initialBalance
            /\ \A k \in 2 .. Len(res.equityCurve) :
                    /\ 3 * (k - 2) < res.totalTrades
                    /\ res.equityCurve[k] =
                            res.initialBalance + SumRange(profits, 1, 3 * (k - 2) + 1)

\* a run was answered whose trade count is 2 more than a multiple of 3, so that
\* its last sample leaves out the last trade and differs from finalBalance
C13_Witness ==
    \E r \in Succeeded :
        LET res == response[r].result.data
        IN  /\ res.totalTrades % 3 = 2
            /\ Len(res.equityCurve) >= 8
            /\ res.equityCurve[Len(res.equityCurve)] # res.finalBalance

\* the sums of the positive and of the negative trade profits
PositiveProfitSum(trades) ==
    SumSeq([i \in 1 .. Len(trades) |-> IF trades[i].profit > 0 THEN trades[i].profit ELSE 0])

NegativeProfitSum(trades) ==
    SumSeq([i \in 1 .. Len(trades) |-> IF trades[i].profit < 0 THEN trades[i].profit ELSE 0])

\* C14 (SpecRun): in every result profitFactor = |sum of the positive profits| /
\* max(1, |sum of the negative profits|), with a non-zero divisor (profitFactor
\* is the quotient num / den, so the equation is cross-multiplied)
C14_ProfitFactor ==
    \A res \in AllResults :
        /\ res.profitFactor.den > 0
        /\ res.profitFactor.num * Max(Money(1), Abs(NegativeProfitSum(res.trades)))
                = Abs(PositiveProfitSum(res.trades)) * res.profitFactor.den

\* a run was answered with both winning and losing trades and a profitFactor
\* below 1
C14_Witness ==
    \E r \in Succeeded :
        LET res == response[r].result.data
        IN  /\ PositiveProfitSum(res.trades) > 0
            /\ NegativeProfitSum(res.trades) < 0
            /\ res.profitFactor.num < res.profitFactor.den

\* C15 (SpecRun): in every trade of every result, a BUY has profit > 0 exactly
\* when closePrice > openPrice and a SELL has profit > 0 exactly when
\* closePrice < openPrice
C15_ProfitSignMatchesPrice ==
    \A res \in AllResults :
        \A i \in 1 .. Len(res.trades) :
            LET t == res.trades[i]
            IN  /\ t.type = "BUY" => (t.profit > 0 <=> t.closePrice > t.openPrice)
                /\ t.type = "SELL" => (t.profit > 0 <=> t.closePrice < t.openPrice)

\* four hours in milliseconds
FourHoursMs == 14400000

\* C16 (SpecRun): trade i (from 0) of every result opens at startDate + i * 4
\* hours and closes 4 hours later, as instants; so it closes after it opens, and
\* at the instant the next trade opens
C16_TradeTimes ==
    \A res \in AllResults :
        \A i \in 1 .. Len(res.trades) :
            LET t == res.trades[i]
            IN  /\ DateGetTime(t.openTime) # NaN
                /\ DateGetTime(t.openTime) = DateGetTime(res.startDate) + (i - 1) * FourHoursMs
                /\ DateGetTime(t.closeTime) = DateGetTime(t.openTime) + FourHoursMs
                /\ DateGetTime(t.closeTime) > DateGetTime(t.openTime)
                /\ i < Len(res.trades) =>
                        DateGetTime(t.closeTime) = DateGetTime(res.trades[i + 1].openTime)

\* a run with a startDate after the epoch was answered, its trades carrying the
\* times in the ISO form while the request gave the date in another form
C16_Witness ==
    \E r \in Succeeded :
        LET res == response[r].result.data
        IN  /\ Len(res.trades) >= 20
            /\ DateGetTime(res.startDate) > 0
            /\ res.startDate.kind = "plain"
            /\ res.trades[1].openTime # res.startDate
            /\ DateGetTime(res.trades[20].closeTime) = DateGetTime(res.startDate) + 20 * FourHoursMs

\* C17 (SpecRun): every result holds exactly totalTrades trades, with
\* 20 <= totalTrades < 70, and trade i (from 0) of the list has the id trade-i
C17_TradeList ==
    \A res \in AllResults :
        /\ Len(res.trades) = res.totalTrades
        /\ 20 <= res.totalTrades
        /\ res.totalTrades < 70
        /\ \A i \in 1 .. Len(res.trades) : res.trades[i].id = <<"trade", i - 1>>

\* a run with the largest trade count was answered
C17_Witness ==
    \E r \in Succeeded :
        LET res == response[r].result.data
        IN  /\ res.totalTrades = 69
            /\ Len(res.trades) = 69
            /\ res.trades[69].id = <<"trade", 68>>

\* the ids of the stored results
StoredIds(results) == {results[i].id : i \in 1 .. Len(results)}

\* C18 (Spec): in every step the stored results stay as they are, in place and
\* unchanged, with at most new ones after them; the step of a run that calls
\* createBacktestResult adds exactly one result, under an id no stored result
\* has; a step that ends a run with an error status adds none; no other step
\* adds one; and the store holds one result per run that got that far
C18_AppendOnly ==
    [][/\ Len(backtestResults') >= Len(backtestResults)
       /\ SubSeq(backtestResults', 1, Len(backtestResults)) = backtestResults
       /\ \A r \in Slots :
            (pc[r] = "awaitStrategy" /\ pc'[r] = "awaitResult")
            => /\ Len(backtestResults') = Len(backtestResults) + 1
               /\ backtestResults'[Len(backtestResults')].id \notin StoredIds(backtestResults)
               /\ backtestResults'[Len(backtestResults')] = held'[r].result
       /\ \A r \in Slots :
            (pc[r] # "done" /\ pc'[r] = "done" /\ response'[r].status # 200)
            => backtestResults' = backtestResults
       /\ backtestResults' # backtestResults
            => \E r \in Slots : pc[r] = "awaitStrategy" /\ pc'[r] = "awaitResult"
       /\ Len(backtestResults') =
            Cardinality({r \in Slots : pc'[r] = "awaitResult" \/ response'[r].status = 200})
       /\ Cardinality(StoredIds(backtestResults')) = Len(backtestResults')]_vars

\* two runs were answered 200, their results stored under different ids in the
\* order of the runs, after a strategy was deleted
C18_Witness ==
    /\ Len(backtestResults) = 2
    /\ backtestResults[1].id # backtestResults[2].id
    /\ backtestResults[1].data # backtestResults[2].data
    /\ \A r \in Slots : response[r].status = 200
    /\ DOMAIN strategies # SampleStrategyIds

\* C19 (SpecStore): every step of a backtest run leaves the strategies, the live
\* trades, the journal entries, the MT5 config and the trading status as they
\* were; such a step changes the stored results or the bars CSV only when it is
\* the step of a run that succeeds, which adds one result and writes the CSV
C19_RunFrame ==
    [][\A r \in Slots :
        pc'[r] # pc[r]
        => /\ strategies' = strategies
           /\ liveTrades' = liveTrades
           /\ journalEntries' = journalEntries
           /\ mt5Config' = mt5Config
           /\ tradingStatus' = tradingStatus
           /\ IF pc[r] = "awaitStrategy" /\ pc'[r] = "awaitResult"
              THEN /\ Len(backtestResults') = Len(backtestResults) + 1
                   /\ SubSeq(backtestResults', 1, Len(backtestResults)) = backtestResults
                   /\ barsCsv'.exists
              ELSE backtestResults' = backtestResults /\ barsCsv' = barsCsv]_vars

\* a run was answered 200 for a strategy still stored, while MT5 is connected,
\* trading is active, the engine's journal entry is written and a live trade
\* is open
C19_Witness ==
    /\ response[1].status = 200
    /\ request[1].strategyId \in DOMAIN strategies
    /\ strategies[request[1].strategyId].lastRun < 0
    /\ mt5Config.connected
    /\ tradingStatus.isActive
    /\ Len(journalEntries) = 3
    /\ Len(liveTrades) = 1
    /\ Len(backtestResults) = 1

\* the rows of a CSV content, in order
CsvRows(content) == SelectSeq(content, LAMBDA tok : tok.tok = "row")

\* C20 (Spec): in every state reached by interleaved backtest requests, the bars
\* CSV is absent while no result is stored, and otherwise holds the header, once
\* and first, followed by exactly one row per bar, in order, of the run whose
\* result is the last one stored
C20_CsvOfLastRun ==
    IF backtestResults = <<>> THEN barsCsv = NoFile
    ELSE /\ barsCsv.exists
         /\ \E r \in Slots :
                /\ pc[r] \in {"awaitResult", "done"}
                /\ "barsData" \in DOMAIN held[r]
                /\ held[r].result = backtestResults[Len(backtestResults)]
                /\ LET bars == held[r].barsData
                       content == barsCsv.content
                   IN  /\ Len(content) >= 2
                       /\ content[1] = HeaderTok
                       /\ content[2] = NL
                       /\ \A i \in 2 .. Len(content) : content[i] # HeaderTok
                       /\ CsvRows(content) = [i \in 1 .. Len(bars) |-> RowTok(bars[i])]

\* the request that arrived second stored its result, of two bars, first; the
\* one that arrived first stored its result, of one bar, last, and the CSV holds
\* one row
C20_Witness ==
    /\ Len(backtestResults) = 2
    /\ \A r \in Slots : "barsData" \in DOMAIN held[r]
    /\ held[2].result = backtestResults[1]
    /\ Len(held[2].barsData) = 2
    /\ held[1].result = backtestResults[2]
    /\ Len(held[1].barsData) = 1
    /\ Len(CsvRows(barsCsv.content)) = 1

\* C23 as stated (SpecRun): the last sample of the equity curve of every result
\* equals its finalBalance
C23_LastSampleIsFinal ==
    \A res \in AllResults :
        res.equityCurve[Len(res.equityCurve)] = res.finalBalance

\* C23 amended: the last sample is the balance after the last trade whose index
\* is a multiple of 3; it equals finalBalance when totalTrades mod 3 = 1 and is
\* above it otherwise, the trades left out being losses
C23_LastSampleAtThirdTrade ==
    \A res \in AllResults :
        LET last == res.equityCurve[Len(res.equityCurve)]
            sampled == 3 * ((res.totalTrades - 1) \div 3) + 1
        IN  /\ last = res.initialBalance + SumRange(Profits(res.trades), 1, sampled)
            /\ res.totalTrades % 3 = 1 => last = res.finalBalance
            /\ res.totalTrades % 3 # 1 => last > res.finalBalance

\* a run with a trade count that is a multiple of 3 was answered: its last
\* sample leaves out two trades
C23_Witness ==
    \E r \in Succeeded :
        LET res == response[r].result.data
        IN  /\ res.totalTrades % 3 = 0
            /\ res.equityCurve[Len(res.equityCurve)] =
                    res.finalBalance - res.trades[res.totalTrades].profit
                                     - res.trades[res.totalTrades - 1].profit

\* C24 (SpecMl): once the one backtest run was answered 200, a response of
\* GET /api/ml/status that saw the bars CSV reports a barCount equal to the
\* barsSaved of the run
C24_BarCountIsBarsSaved ==
    (response[1].status = 200 /\ mlStatus.status = 200 /\ mlStatus.trainingDataAvailable)
    => mlStatus.barCount = response[1].barsSaved

\* C29 (SpecMl): the handler of POST /api/ml/train sends at most one response,
\* and exactly one once the request was refused or its subprocess has closed
C29_OneTrainResponse ==
    /\ Len(train.responses) <= 1
    /\ (train.pc = "done" \/ (train.pc = "spawned" /\ train.closeSeen))
        => Len(train.responses) = 1

\* the rows of the bars CSV as the records the predictor is to get
CsvRowRecords(content) ==
    LET rows == CsvRows(content)
        headers == [i \in 1 .. ColumnCount |-> <<"header", i>>]
    IN  [i \in 1 .. Len(rows) |-> RecordOf(headers, LineCells(<<rows[i]>>))]

\* C21 (SpecSignal): the records a simulate-signal request passed to the
\* predictor are at most 100 and are the last bar rows of the CSV, in file
\* order; none of them is the header line
C21_RecordsAreBarRows ==
    "records" \in DOMAIN signal
    => /\ Len(signal.records) <= 100
       /\ signal.records = SliceLast(CsvRowRecords(barsCsv.content), 100)
       /\ \A i \in 1 .. Len(signal.records) :
                \A h \in DOMAIN signal.records[i] : signal.records[i][h] # h

\* C22 (SpecSignal): in every response of simulate-signal the decision is BUY or
\* SELL only with a confidence of at least 0.55, and a confidence below 0.55
\* comes with the decision HOLD and skipped = true
C22_ConfidenceGate ==
    (signal.pc = "done" /\ signal.response.status = 200)
    => /\ signal.response.decision \in {"BUY", "SELL"} => signal.response.confidence >= 55
       /\ signal.response.confidence < 55
            => signal.response.decision = "HOLD" /\ signal.response.skipped

\* C28 (SpecSignal): a step that writes a "Signal accepted" or "Skipped trade"
\* journal entry is taken only while trading is active, and a request that finds
\* trading inactive is answered 400 and writes no entry
C28_EntriesOnlyWhileActive ==
    [][/\ (/\ Len(journalEntries') = Len(journalEntries) + 1
            /\ journalEntries'[Len(journalEntries')].title
                    \in {"Signal accepted", "Skipped trade: low confidence"})
           => tradingStatus.isActive
       /\ (signal.pc = "idle" /\ signal'.pc # "idle" /\ ~tradingStatus.isActive)
           => /\ signal'.response.status = 400
              /\ journalEntries' = journalEntries]_vars

\* the strategies GET /api/strategies lists
ListedStrategies == {strategies[key] : key \in DOMAIN strategies}

\* C25 (SpecStrategies): every strategy of the store is held under the key that
\* is its id, so looking up the id of a listed strategy finds that strategy
C25_KeyIsId ==
    /\ \A key \in DOMAIN strategies : strategies[key].id = key
    /\ \A st \in ListedStrategies :
            /\ st.id \in DOMAIN strategies
            /\ strategies[st.id] = st

\* C26 (SpecStore): trading is active only while the MT5 config is connected
C26_ActiveOnlyWhileConnected == tradingStatus.isActive => mt5Config.connected

\* a step of one of the three routes that answer with a TradingStatus
TradingStatusAnswered ==
    \/ GetTradingStatus
    \/ \E ids \in {<<>>, <<"s1">>} : TradingStart(ids)
    \/ TradingStop

\* C27 (SpecStore): every TradingStatus the status, start and stop routes answer
\* with reports as openPositions the number of OPEN trades of that moment
C27_OpenPositionsCounted ==
    [][TradingStatusAnswered =>
            tradingOut'.body.openPositions = OpenPositions(liveTrades')]_vars

\* the trade of the store with this id is CLOSED
IsClosed(stored, id) == \E i \in 1 .. Len(stored) : stored[i].id = id /\ stored[i].status = "CLOSED"

\* C30 (SpecStore): closeTime is null exactly for the OPEN trades; a trade is
\* created only while MT5 is connected; a CLOSED trade stays CLOSED; closing an
\* unknown id is answered 404 and leaves the trades as they were
C30_TradeLifecycle ==
    /\ [](\A i \in 1 .. Len(liveTrades) :
            (liveTrades[i].closeTime = "null") <=> (liveTrades[i].status = "OPEN"))
    /\ [][/\ Len(liveTrades') > Len(liveTrades) => mt5Config.connected
          /\ \A id \in 1 .. MaxLiveTrades + 1 :
                /\ IsClosed(liveTrades, id) => IsClosed(liveTrades', id)
                /\ (CloseTrade(id) /\ \A i \in 1 .. Len(liveTrades) : liveTrades[i].id # id)
                        => (tradeOut'.status = 404 /\ liveTrades' = liveTrades)]_vars

\* a trade was placed and closed, and a later close of an unknown id was answered 404
C30_Witness ==
    /\ Len(liveTrades) >= 1
    /\ liveTrades[1].status = "CLOSED"
    /\ liveTrades[1].closeTime # "null"
    /\ ~mt5Config.connected
    /\ tradeOut.status = 404

====
